---- MODULE Spec2Model ----
(***************************************************************************)
(* The client / computer / port inventory service of src/app.py.           *)
(*                                                                         *)
(* The three tables are sets of rows; every route handler is one action    *)
(* that runs the handler's whole body inside its session: the session's    *)
(* view of the tables is threaded through the handler's operators, and a   *)
(* raised exception rolls the tables back to what they were at the start.  *)
(***************************************************************************)
EXTENDS Integers, Sequences, FiniteSets, TLC

VARIABLES clients, computers, ports, request, response, before, calls,
          session, reader

vars == <<clients, computers, ports, request, response, before, calls,
          session, reader>>

(***************************************************************************)
(* Bounds of the model                                                     *)
(***************************************************************************)
(* entries of one POST body *)
MaxEntries == 2
(* computers named by one request body *)
MaxComputers == 2
(* latency, hostname and port keys given by one POST body *)
MaxBodyFields == 1
(* latency, hostname and port keys given by one PUT body *)
MaxPatchFields == 2
(* requests handled in one run *)
MaxCalls == 2

(***************************************************************************)
(* Values                                                                  *)
(***************************************************************************)
None == "None"
Absent == "Absent"

ClientNames == {"a", "b"}
EmptyName == ""
IPOrder == <<"ip1", "ip2">>
PortOrder == <<"p1", "p2">>
Latencies == {"l1"}
Hostnames == {"h1"}
Services == {"s1", "s2"}

HTTP_200 == 200
HTTP_400 == 400
HTTP_404 == 404
HTTP_500 == 500

Max(S) == CHOOSE x \in S : \A y \in S : y <= x
Min(S) == CHOOSE x \in S : \A y \in S : x <= y

(***************************************************************************)
(* A JSON object is the sequence of its (key, value) items, in the order   *)
(* dict.items() yields them; keys are distinct.                            *)
(***************************************************************************)
Nth(K, i) == CHOOSE k \in K : Cardinality({j \in K : j < k}) = i - 1

ItemsOf(order, K, f) ==
  [i \in 1..Cardinality(K) |-> <<order[Nth(K, i)], f[Nth(K, i)]>>]

Dicts(order, Vals, max) ==
  UNION { { ItemsOf(order, K, f) : f \in [K -> Vals] } :
          K \in { S \in SUBSET (1..Len(order)) : Cardinality(S) <= max } }

Keys(items) == { items[i][1] : i \in 1..Len(items) }

PortDicts == Dicts(PortOrder, Services, Max({MaxBodyFields, MaxPatchFields}))

ComputerData ==
  [latency : Latencies \cup {Absent},
   hostname : Hostnames \cup {Absent},
   ports : PortDicts]

ComputerDicts == Dicts(IPOrder, ComputerData, MaxComputers)

(* the keys a computer's data holds: latency, hostname, and each port *)
Fields(computer_data) ==
  (IF computer_data.latency = Absent THEN 0 ELSE 1)
  + (IF computer_data.hostname = Absent THEN 0 ELSE 1)
  + Len(computer_data.ports)

RECURSIVE Sum(_)
Sum(ns) == IF ns = <<>> THEN 0 ELSE Head(ns) + Sum(Tail(ns))

FieldsOfDict(items) == Sum([i \in DOMAIN items |-> Fields(items[i][2])])

(* the bodies of PUT: a computers mapping *)
Patches == { d \in ComputerDicts : FieldsOfDict(d) <= MaxPatchFields }

ClientData ==
  [client : ClientNames \cup {EmptyName},
   computers : { d \in ComputerDicts : FieldsOfDict(d) <= MaxBodyFields }]

(* the bodies of POST: a list of entries *)
Bodies ==
  UNION { { data \in [1..k -> ClientData] :
              /\ Sum([i \in DOMAIN data |-> Len(data[i].computers)]) <= MaxComputers
              /\ Sum([i \in DOMAIN data |-> FieldsOfDict(data[i].computers)]) <= MaxBodyFields } :
          k \in 0..MaxEntries }

(* dict.get(key): the value, or None when the key is absent *)
Get(v) == IF v = Absent THEN None ELSE v

(* dict.get(key, default) *)
GetOr(v, default) == IF v = Absent THEN default ELSE v

(***************************************************************************)
(* The tables                                                              *)
(***************************************************************************)
Store(cl, co, po) == [clients |-> cl, computers |-> co, ports |-> po]

EmptyStore == Store({}, {}, {})

Current == Store(clients, computers, ports)

(* Integer primary key: one more than the largest id of the table *)
NextId(rows) == IF rows = {} THEN 1 ELSE Max({ r.id : r \in rows }) + 1

(* query(...).first() on a non-empty result: the matching row of lowest id *)
First(rows) == CHOOSE r \in rows : r.id = Min({ x.id : x \in rows })


(* Computer.ports / Port.computer_id: the Port rows of one computer *)
PortsOf(s, computer_id) == { p \in s.ports : p.computer_id = computer_id }

(* Client.computers / Computer.client_id: the Computer rows of one client *)
ComputersOf(s, client_id) == { c \in s.computers : c.client_id = client_id }

(***************************************************************************)
(* Exceptions and responses                                                *)
(***************************************************************************)
HTTPException(status_code, detail) ==
  [type |-> "HTTPException", status_code |-> status_code, detail |-> detail]

IntegrityError(column) ==
  [type |-> "IntegrityError", status_code |-> 0,
   detail |-> "UNIQUE constraint failed: " \o column]

NoException == [type |-> "none", status_code |-> 0, detail |-> ""]

(* str(e): starlette renders an HTTPException as "<status>: <detail>" *)
Str(e) ==
  IF e.type = "HTTPException"
  THEN ToString(e.status_code) \o ": " \o e.detail
  ELSE "(sqlite3.IntegrityError) " \o e.detail

Success(message) == [status_code |-> HTTP_200, body |-> message]

Fault(e) == [status_code |-> e.status_code, body |-> e.detail]

NoResponse == [status_code |-> 0, body |-> ""]

NoRequest == [op |-> "none", client_name |-> "", data |-> <<>>]

(***************************************************************************)
(* The session: the tables as the transaction sees them, and the objects   *)
(* added with session.add() that no flush has inserted yet.                *)
(***************************************************************************)
Session(s) == [store |-> s, new |-> <<>>]

Ok(sess) == [ok |-> TRUE, exc |-> NoException, sess |-> sess]

Raised(e, sess) == [ok |-> FALSE, exc |-> e, sess |-> sess]

add(sess, table, row) ==
  [sess EXCEPT !.new = Append(@, [table |-> table, row |-> row])]

(* INSERT of one row: the table's next id, and its UNIQUE column checked *)
InsertClient(s, row) ==
  IF \E c \in s.clients : c.name = row.name
  THEN [ok |-> FALSE, exc |-> IntegrityError("clients.name"), store |-> s]
  ELSE [ok |-> TRUE, exc |-> NoException,
        store |-> [s EXCEPT !.clients = @ \cup
                     {[id |-> NextId(s.clients), name |-> row.name]}]]

(* the INSERT of a computers table whose ip_address column is not UNIQUE *)
InsertComputerNotUnique(s, row) ==
  [ok |-> TRUE, exc |-> NoException,
   store |-> [s EXCEPT !.computers = @ \cup
                {[id |-> NextId(s.computers), ip_address |-> row.ip_address,
                  latency |-> row.latency, hostname |-> row.hostname,
                  client_id |-> row.client_id]}]]

InsertComputer(s, row) ==
  IF \E c \in s.computers : c.ip_address = row.ip_address
  THEN [ok |-> FALSE, exc |-> IntegrityError("computers.ip_address"), store |-> s]
  ELSE [ok |-> TRUE, exc |-> NoException,
        store |-> [s EXCEPT !.computers = @ \cup
                     {[id |-> NextId(s.computers), ip_address |-> row.ip_address,
                       latency |-> row.latency, hostname |-> row.hostname,
                       client_id |-> row.client_id]}]]

InsertPort(s, row) ==
  [ok |-> TRUE, exc |-> NoException,
   store |-> [s EXCEPT !.ports = @ \cup
                {[id |-> NextId(s.ports), port_number |-> row.port_number,
                  service_name |-> row.service_name,
                  computer_id |-> row.computer_id]}]]

Insert(s, n) ==
  CASE n.table = "clients" -> InsertClient(s, n.row)
    [] n.table = "computers" -> InsertComputer(s, n.row)
    [] n.table = "ports" -> InsertPort(s, n.row)

RECURSIVE InsertAll(_, _)
InsertAll(s, news) ==
  IF news = <<>> THEN [ok |-> TRUE, exc |-> NoException, store |-> s]
  ELSE LET r == Insert(s, Head(news))
       IN IF r.ok THEN InsertAll(r.store, Tail(news)) ELSE r

(* session.flush(): the pending objects are inserted, parents' tables first *)
flush(sess) ==
  LET of(table) == SelectSeq(sess.new, LAMBDA n : n.table = table)
      r == InsertAll(sess.store, of("clients") \o of("computers") \o of("ports"))
  IN IF r.ok THEN Ok(Session(r.store)) ELSE Raised(r.exc, sess)

(* session.commit(): flush, then the transaction's tables become the tables *)
commit(sess) == flush(sess)

(* a rollback that leaves the rows already flushed in the tables *)
rollback_keeps_flushed(s0, sess) == sess.store

(* session.rollback(): the tables are what they were when the session began *)
rollback(s0, sess) == s0

(* an except clause that raises the 500 without session.rollback(): the    *)
(* session is closed with its transaction neither committed nor rolled back *)
transaction_without_rollback(s0, r, message) ==
  LET c == IF r.ok THEN commit(r.sess) ELSE r
  IN IF c.ok
     THEN [store |-> c.sess.store, response |-> Success(message),
           txn |-> "committed", closed |-> TRUE]
     ELSE [store |-> s0,
           response |-> Fault(HTTPException(HTTP_500, Str(c.exc))),
           txn |-> "open", closed |-> TRUE]

(* try: ... commit / except Exception: rollback, raise 500 / finally: close *)
transaction(s0, r, message) ==
  LET c == IF r.ok THEN commit(r.sess) ELSE r
  IN IF c.ok
     THEN [store |-> c.sess.store, response |-> Success(message),
           txn |-> "committed", closed |-> TRUE]
     ELSE [store |-> rollback(s0, c.sess),
           response |-> Fault(HTTPException(HTTP_500, Str(c.exc))),
           txn |-> "rolled back", closed |-> TRUE]

(***************************************************************************)
(* POST /clients/                                                          *)
(***************************************************************************)
RECURSIVE create_ports(_, _, _)
create_ports(sess, items, computer_id) ==
  IF items = <<>> THEN sess
  ELSE create_ports(
         add(sess, "ports",
             [port_number |-> items[1][1], service_name |-> items[1][2],
              computer_id |-> computer_id]),
         Tail(items), computer_id)

RECURSIVE create_computers(_, _, _)
create_computers(sess, items, client_id) ==
  IF items = <<>> THEN Ok(sess)
  ELSE LET ip == items[1][1]
           computer_data == items[1][2]
           f == flush(add(sess, "computers",
                          [ip_address |-> ip,
                           latency |-> Get(computer_data.latency),
                           hostname |-> Get(computer_data.hostname),
                           client_id |-> client_id]))
       IN IF ~f.ok THEN f
          ELSE LET computer == First({ c \in f.sess.store.computers : c.ip_address = ip })
               IN create_computers(
                    create_ports(f.sess, computer_data.ports, computer.id),
                    Tail(items), client_id)

(* if not client_name: an entry without computers is accepted *)
invalid_name_only(client_name, computers_) == client_name = EmptyName

(* if not client_name or not computers *)
invalid(client_name, computers_) == client_name = EmptyName \/ computers_ = <<>>

RECURSIVE create_entries(_, _)
create_entries(sess, data) ==
  IF data = <<>> THEN Ok(sess)
  ELSE LET client_name == data[1].client
           computers_ == data[1].computers
       IN IF invalid(client_name, computers_)
          THEN Raised(HTTPException(HTTP_400, "Invalid data format"), sess)
          ELSE IF \E c \in sess.store.clients : c.name = client_name
          THEN Raised(HTTPException(HTTP_400, "Client already exists"), sess)
          ELSE LET f == flush(add(sess, "clients", [name |-> client_name]))
               IN IF ~f.ok THEN f
                  ELSE LET client == First({ c \in f.sess.store.clients : c.name = client_name })
                           r == create_computers(f.sess, computers_, client.id)
                       IN IF ~r.ok THEN r ELSE create_entries(r.sess, Tail(data))

create_clients(s0, data) ==
  transaction(s0, create_entries(Session(s0), data),
              "Clients and computers created successfully")

(***************************************************************************)
(* PUT /clients/{client_name}                                              *)
(***************************************************************************)
SetService(sess, port_entry, service) ==
  [sess EXCEPT !.store.ports =
     (@ \ {port_entry}) \cup {[port_entry EXCEPT !.service_name = service]}]

(* no lookup of the existing Port: every patched port becomes a new row *)
RECURSIVE update_ports_always_adding(_, _, _)
update_ports_always_adding(sess, items, computer_id) ==
  IF items = <<>> THEN sess
  ELSE update_ports_always_adding(
         add(sess, "ports",
             [port_number |-> items[1][1], service_name |-> items[1][2],
              computer_id |-> computer_id]),
         Tail(items), computer_id)

RECURSIVE update_ports(_, _, _)
update_ports(sess, items, computer_id) ==
  IF items = <<>> THEN sess
  ELSE LET port == items[1][1]
           service == items[1][2]
           found == { p \in sess.store.ports :
                        p.computer_id = computer_id /\ p.port_number = port }
       IN update_ports(
            IF found # {}
            THEN SetService(sess, First(found), service)
            ELSE add(sess, "ports",
                     [port_number |-> port, service_name |-> service,
                      computer_id |-> computer_id]),
            Tail(items), computer_id)

(* .get(key) in place of .get(key, stored): a key left out becomes null *)
SetFieldsReplacing(sess, computer, computer_data) ==
  [sess EXCEPT !.store.computers =
     (@ \ {computer}) \cup
     {[computer EXCEPT !.latency = Get(computer_data.latency),
                       !.hostname = Get(computer_data.hostname)]}]

SetFields(sess, computer, computer_data) ==
  [sess EXCEPT !.store.computers =
     (@ \ {computer}) \cup
     {[computer EXCEPT !.latency = GetOr(computer_data.latency, computer.latency),
                       !.hostname = GetOr(computer_data.hostname, computer.hostname)]}]

NewComputer(sess, ip, computer_data, client_id) ==
  add(sess, "computers",
      [ip_address |-> ip,
       latency |-> Get(computer_data.latency),
       hostname |-> Get(computer_data.hostname),
       client_id |-> client_id])

(* the patch taken as the client's whole inventory: the client's          *)
(* computers it does not name are deleted, with their ports               *)
RECURSIVE update_computers_replacing(_, _, _)
update_computers_replacing(sess, items, client_id) ==
  LET named == { items[i][1] : i \in DOMAIN items }
      dropped == { c \in sess.store.computers :
                     c.client_id = client_id /\ c.ip_address \notin named }
      kept == [sess EXCEPT !.store =
                 Store(sess.store.clients, sess.store.computers \ dropped,
                       { p \in sess.store.ports :
                           \A c \in dropped : p.computer_id # c.id })]
      RECURSIVE merge(_, _)
      merge(se, its) ==
        IF its = <<>> THEN se
        ELSE LET found == { c \in se.store.computers :
                              c.ip_address = its[1][1] /\ c.client_id = client_id }
             IN merge(IF found # {}
                      THEN update_ports(SetFields(se, First(found), its[1][2]),
                                        its[1][2].ports, First(found).id)
                      ELSE NewComputer(se, its[1][1], its[1][2], client_id),
                      Tail(its))
  IN merge(kept, items)

RECURSIVE update_computers(_, _, _)
update_computers(sess, items, client_id) ==
  IF items = <<>> THEN sess
  ELSE LET ip == items[1][1]
           computer_data == items[1][2]
           found == { c \in sess.store.computers :
                        c.ip_address = ip /\ c.client_id = client_id }
       IN update_computers(
            IF found # {}
            THEN update_ports(SetFields(sess, First(found), computer_data),
                              computer_data.ports, First(found).id)
            ELSE NewComputer(sess, ip, computer_data, client_id),
            Tail(items), client_id)

update_client(s0, client_name, data) ==
  LET found == { c \in s0.clients : c.name = client_name }
  IN transaction(s0,
       IF found = {}
       THEN Raised(HTTPException(HTTP_404, "Client not found"), Session(s0))
       ELSE Ok(update_computers(Session(s0), data, First(found).id)),
       "Client updated successfully")

(***************************************************************************)
(* DELETE /clients/{client_name}                                           *)
(***************************************************************************)
(* session.delete(client) with cascade="all, delete" on Client.computers   *)
(* and on Computer.ports                                                    *)
(* Computer.ports without cascade: the Ports of the deleted Computers stay *)
delete_keeping_ports(sess, client) ==
  [sess EXCEPT !.store =
     Store(sess.store.clients \ {client},
           sess.store.computers \ ComputersOf(sess.store, client.id),
           sess.store.ports)]

(* session.delete(client) without cascade on Client.computers: only the   *)
(* Client row goes                                                         *)
delete_client_row_only(sess, client) ==
  [sess EXCEPT !.store.clients = @ \ {client}]

delete(sess, client) ==
  LET gone == ComputersOf(sess.store, client.id)
  IN [sess EXCEPT !.store =
        Store(sess.store.clients \ {client},
              sess.store.computers \ gone,
              { p \in sess.store.ports :
                  \A c \in gone : p.computer_id # c.id })]

delete_client(s0, client_name) ==
  LET found == { c \in s0.clients : c.name = client_name }
  IN transaction(s0,
       IF found = {}
       THEN Raised(HTTPException(HTTP_404, "Client not found"), Session(s0))
       ELSE Ok(delete(Session(s0), First(found))),
       "Client deleted successfully")

(***************************************************************************)
(* GET /clients/                                                           *)
(***************************************************************************)
(* the rows of a query or of a relationship, in id order *)
Rows(rows) ==
  [i \in 1..Cardinality(rows) |->
     CHOOSE r \in rows : Cardinality({ x \in rows : x.id < r.id }) = i - 1]

(* {port.port_number: port.service_name for port in computer.ports} *)
PortsDict(rows) ==
  [n \in { p.port_number : p \in rows } |->
     (CHOOSE p \in rows :
        /\ p.port_number = n
        /\ \A q \in rows : q.port_number = n => q.id <= p.id).service_name]

(* hostname read from the latency column *)
ComputerTreeLatencyTwice(s, computer) ==
  [ip_address |-> computer.ip_address,
   latency |-> computer.latency,
   hostname |-> computer.latency,
   ports |-> PortsDict(PortsOf(s, computer.id))]

ComputerTree(s, computer) ==
  [ip_address |-> computer.ip_address,
   latency |-> computer.latency,
   hostname |-> computer.hostname,
   ports |-> PortsDict(PortsOf(s, computer.id))]

ClientTree(s, client) ==
  [client |-> client.name,
   computers |-> LET cs == Rows(ComputersOf(s, client.id))
                 IN [i \in DOMAIN cs |-> ComputerTree(s, cs[i])]]

(* a JSON value with its JSON type: the handler returns an object or a list *)
Json(type, value) == [type |-> type, value |-> value]

(* .first() in place of .all(): only the first client is listed *)
get_all_clients_first_only(s) ==
  IF s.clients = {} THEN Json("object", [message |-> "No clients found"])
  ELSE Json("list", <<ClientTree(s, First(s.clients))>>)

get_all_clients(s) ==
  IF s.clients = {} THEN Json("object", [message |-> "No clients found"])
  ELSE LET cl == Rows(s.clients)
       IN Json("list", [i \in DOMAIN cl |-> ClientTree(s, cl[i])])

(***************************************************************************)
(* The service: one request at a time, handled whole, then answered        *)
(***************************************************************************)
(* no session is open between two calls *)
NoSession == [txn |-> "none", closed |-> TRUE]

(* no list-all is in progress beside a writer *)
NoReader ==
  [pc |-> "idle", seen |-> {}, clients |-> <<>>, computers |-> <<>>,
   trees |-> <<>>, result |-> Json("list", <<>>)]

(* the tables a list-all in progress could have read: those at its start   *)
(* and those every commit since has left                                   *)
Observed(s) ==
  IF reader.pc = "idle" THEN reader ELSE [reader EXCEPT !.seen = @ \cup {s}]

Init ==
  /\ clients = {}
  /\ computers = {}
  /\ ports = {}
  /\ request = NoRequest
  /\ response = NoResponse
  /\ before = EmptyStore
  /\ calls = 0
  /\ session = NoSession
  /\ reader = NoReader

Idle == request = NoRequest

(* what every handler leaves behind: the tables, and the call just made *)
Handled(op, client_name, data, r) ==
  /\ clients' = r.store.clients
  /\ computers' = r.store.computers
  /\ ports' = r.store.ports
  /\ request' = [op |-> op, client_name |-> client_name, data |-> data]
  /\ response' = r.response
  /\ before' = Current
  /\ calls' = calls + 1
  /\ session' = [txn |-> r.txn, closed |-> r.closed]
  /\ reader' = Observed(r.store)

CreateClients ==
  /\ Idle
  /\ calls < MaxCalls
  /\ \E data \in Bodies :
       Handled("create_clients", "", data, create_clients(Current, data))

UpdateClient ==
  /\ Idle
  /\ calls < MaxCalls
  /\ \E client_name \in ClientNames, data \in Patches :
       Handled("update_client", client_name, data,
               update_client(Current, client_name, data))

DeleteClient ==
  /\ Idle
  /\ calls < MaxCalls
  /\ \E client_name \in ClientNames :
       Handled("delete_client", client_name, <<>>,
               delete_client(Current, client_name))

GetAllClients ==
  /\ Idle
  /\ calls < MaxCalls
  /\ Handled("get_all_clients", "", <<>>,
             [store |-> Current,
              response |-> Success(get_all_clients(Current)),
              txn |-> "none", closed |-> TRUE])

(* the response leaves; the service waits for the next request *)
Respond ==
  /\ ~Idle
  /\ request' = NoRequest
  /\ response' = NoResponse
  /\ before' = EmptyStore
  /\ session' = NoSession
  /\ UNCHANGED <<clients, computers, ports, calls, reader>>

Next == CreateClients \/ UpdateClient \/ DeleteClient \/ GetAllClients \/ Respond

Spec == Init /\ [][Next]_vars

(***************************************************************************)
(* GET /clients/ beside a writer.  The handler's session issues one SELECT *)
(* for the clients (line 115) and then, lazily, one SELECT for each        *)
(* client's computers and one for each computer's ports (lines 119-132).   *)
(* The sqlite3 driver opens no transaction for a SELECT, so each SELECT    *)
(* reads the tables as the last commit left them, and a POST, PUT or       *)
(* DELETE of another request may commit between two of them.  A writer's   *)
(* own rows are invisible to the reader until its commit, which is why the *)
(* writers stay the single steps they are in Spec.                         *)
(***************************************************************************)
StoresAfterOnePost ==
  { create_clients(EmptyStore, data).store : data \in Bodies } \ {EmptyStore}

InitConcurrent ==
  /\ \E s \in StoresAfterOnePost :
       /\ clients = s.clients
       /\ computers = s.computers
       /\ ports = s.ports
  /\ request = NoRequest
  /\ response = NoResponse
  /\ before = EmptyStore
  /\ calls = 1
  /\ session = NoSession
  /\ reader = NoReader

ReaderStep(rd) ==
  /\ reader' = rd
  /\ UNCHANGED <<clients, computers, ports, request, response, before, calls,
                 session>>

(* session = SessionLocal() *)
ReaderBegin ==
  /\ reader.pc = "idle"
  /\ ReaderStep([NoReader EXCEPT !.pc = "query", !.seen = {Current}])

(* clients = session.query(Client).all(); if not clients: return message *)
QueryClients ==
  /\ reader.pc = "query"
  /\ ReaderStep(
       IF clients = {}
       THEN [reader EXCEPT !.pc = "done",
                           !.result = Json("object", [message |-> "No clients found"])]
       ELSE [reader EXCEPT !.pc = "computers",
                           !.clients = Rows(clients),
                           !.result = Json("list", <<>>)])

(* result.append({...}) for the client at hand; the loop goes on or ends *)
Appended(rd, trees) ==
  [rd EXCEPT !.result.value = Append(@, [client |-> Head(rd.clients).name,
                                         computers |-> trees]),
             !.clients = Tail(@),
             !.computers = <<>>,
             !.trees = <<>>,
             !.pc = IF Tail(rd.clients) = <<>> THEN "done" ELSE "computers"]

(* for computer in client.computers: the lazy load of one client's computers *)
LoadComputers ==
  /\ reader.pc = "computers"
  /\ LET cs == Rows(ComputersOf(Current, Head(reader.clients).id))
     IN ReaderStep(IF cs = <<>> THEN Appended(reader, <<>>)
                   ELSE [reader EXCEPT !.pc = "ports", !.computers = cs])

(* for port in computer.ports: the lazy load of one computer's ports, and  *)
(* the computer's entry built from the attributes loaded with its row      *)
LoadPorts ==
  /\ reader.pc = "ports"
  /\ LET trees == Append(reader.trees,
                         ComputerTree(Current, Head(reader.computers)))
     IN ReaderStep(IF Tail(reader.computers) = <<>> THEN Appended(reader, trees)
                   ELSE [reader EXCEPT !.computers = Tail(@), !.trees = trees])

(* return result / finally: session.close() *)
ReaderReturn ==
  /\ reader.pc = "done"
  /\ ReaderStep(NoReader)

NextConcurrent ==
  \/ CreateClients
  \/ UpdateClient
  \/ DeleteClient
  \/ Respond
  \/ ReaderBegin
  \/ QueryClients
  \/ LoadComputers
  \/ LoadPorts
  \/ ReaderReturn

SpecConcurrent == InitConcurrent /\ [][NextConcurrent]_vars


(***************************************************************************)
(* Vocabulary of the properties                                            *)
(***************************************************************************)
Returned(op) == request.op = op

Succeeded == response.status_code = HTTP_200

Faulted == ~Idle /\ ~Succeeded

(* The fault kinds, as the status the caller is shown: 404 is NotFound,    *)
(* 400 "Invalid data format" is InvalidInput, 500 is the internal error    *)
(* of a failing store; a Conflict is a fault of none of these kinds.       *)
NotFoundFault == Faulted /\ response.status_code = HTTP_404

InvalidInputFault ==
  Faulted /\ response.status_code = HTTP_400 /\ response.body = "Invalid data format"

StorageFailureFault == Faulted /\ response.status_code = HTTP_500

ConflictFault ==
  Faulted /\ ~NotFoundFault /\ ~InvalidInputFault /\ ~StorageFailureFault

(* the rows a name or an address had before the call, and has now *)
ClientsNamed(s, name) == { c \in s.clients : c.name = name }

ComputersAt(s, ip) == { c \in s.computers : c.ip_address = ip }

OwnerNames(s, ip) ==
  { cl.name : cl \in { x \in s.clients :
                         \E c \in ComputersAt(s, ip) : c.client_id = x.id } }

(* the (port_number, service_name) pairs of a ports mapping, of Port rows *)
PairsOfDict(items) == { <<items[i][1], items[i][2]>> : i \in 1..Len(items) }

PairsOfRows(rows) == { <<p.port_number, p.service_name>> : p \in rows }

(* the client a PUT or a DELETE names, when it exists *)
Target == First(ClientsNamed(before, request.client_name))

(***************************************************************************)
(* C1. No two persisted Computers share an ip_address, whichever Clients   *)
(* own them, in every state reached by create, update and delete calls.    *)
(***************************************************************************)
C1_UniqueIP ==
  \A c1, c2 \in computers : c1.ip_address = c2.ip_address => c1 = c2

(* a PUT for an existing client has just named an address another client holds *)
C1_Witness ==
  /\ Returned("update_client")
  /\ ClientsNamed(before, request.client_name) # {}
  /\ \E j \in DOMAIN request.data :
       /\ OwnerNames(before, request.data[j][1]) # {}
       /\ request.client_name \notin OwnerNames(before, request.data[j][1])

(***************************************************************************)
(* C2. A POST entry or a PUT patch that names an address already persisted *)
(* under a different Client always ends with a Conflict fault (stated for  *)
(* well-formed POST bodies and for PUTs of an existing client, where no    *)
(* other fault is due).                                                    *)
(***************************************************************************)
WellFormed(data) ==
  \A i \in DOMAIN data : data[i].client # EmptyName /\ data[i].computers # <<>>

C2_ForeignIPConflict ==
  /\ (Returned("create_clients") /\ WellFormed(request.data)) =>
       ((\E i \in DOMAIN request.data :
           \E j \in DOMAIN request.data[i].computers :
             \E n \in OwnerNames(before, request.data[i].computers[j][1]) :
               n # request.data[i].client)
        => ConflictFault)
  /\ (Returned("update_client") /\ ClientsNamed(before, request.client_name) # {}) =>
       ((\E j \in DOMAIN request.data :
           \E n \in OwnerNames(before, request.data[j][1]) :
             n # request.client_name)
        => ConflictFault)

(***************************************************************************)
(* C3. Bulk-create is atomic: when any entry of the call fails, the        *)
(* Clients, Computers and Ports after the call are those before it, also   *)
(* for the entries that precede the failing one.                           *)
(***************************************************************************)
C3_BulkCreateAtomic ==
  (Returned("create_clients") /\ Faulted) => Current = before

(* the second entry failed after a first entry that alone would have been stored *)
C3_Witness ==
  /\ Returned("create_clients")
  /\ Faulted
  /\ Len(request.data) = 2
  /\ create_clients(before, SubSeq(request.data, 1, 1)).response.status_code = HTTP_200

(***************************************************************************)
(* C4. A POST with two entries of the same client name, or with an entry   *)
(* whose client name is already persisted, ends with a Conflict fault and  *)
(* adds no Client row of that name (stated for well-formed bodies, where   *)
(* no other fault is due).                                                 *)
(***************************************************************************)
ClashingNames ==
  { request.data[i].client : i \in
      { k \in DOMAIN request.data :
          \/ ClientsNamed(before, request.data[k].client) # {}
          \/ \E m \in DOMAIN request.data :
               m # k /\ request.data[m].client = request.data[k].client } }

C4_DuplicateNameConflict ==
  (Returned("create_clients") /\ WellFormed(request.data) /\ ClashingNames # {}) =>
    /\ ConflictFault
    /\ \A n \in ClashingNames : ClientsNamed(Current, n) = ClientsNamed(before, n)

(***************************************************************************)
(* C5. A PUT patch entry for an address that exists nowhere creates a      *)
(* Computer of the target Client with the patch's latency and hostname and *)
(* one Port per (port, service) pair of the patch's ports mapping.         *)
(***************************************************************************)
C5_UpdateCreatesComputerWithPorts ==
  (Returned("update_client") /\ Succeeded) =>
    \A j \in DOMAIN request.data :
      LET ip == request.data[j][1]
          computer_data == request.data[j][2]
      IN ComputersAt(before, ip) = {} =>
           \E c \in ComputersAt(Current, ip) :
             /\ c.client_id = Target.id
             /\ c.latency = Get(computer_data.latency)
             /\ c.hostname = Get(computer_data.hostname)
             /\ PairsOfRows(PortsOf(Current, c.id)) = PairsOfDict(computer_data.ports)
             /\ Cardinality(PortsOf(Current, c.id)) = Len(computer_data.ports)

(***************************************************************************)
(* C6. Partial-update is idempotent: the same patch applied a second time  *)
(* leaves the persisted state as the first application left it.            *)
(***************************************************************************)
C6_UpdateIdempotent ==
  (Returned("update_client") /\ Succeeded) =>
    update_client(Current, request.client_name, request.data).store = Current

(***************************************************************************)
(* C7. Round trip: after a successful POST on an empty store, list-all     *)
(* returns the clients of the input, each with the input's computers (ip,  *)
(* latency, hostname; a key left out reads back as null) and each          *)
(* computer's port -> service mapping, up to ordering.                     *)
(***************************************************************************)
InputTrees(data) ==
  { [client |-> data[i].client,
     computers |->
       { [ip_address |-> data[i].computers[j][1],
          latency |-> Get(data[i].computers[j][2].latency),
          hostname |-> Get(data[i].computers[j][2].hostname),
          ports |-> PairsOfDict(data[i].computers[j][2].ports)] :
         j \in DOMAIN data[i].computers }] :
    i \in DOMAIN data }

ListedTrees(list) ==
  { [client |-> list[i].client,
     computers |->
       { [ip_address |-> list[i].computers[j].ip_address,
          latency |-> list[i].computers[j].latency,
          hostname |-> list[i].computers[j].hostname,
          ports |-> { <<n, list[i].computers[j].ports[n]>> :
                      n \in DOMAIN list[i].computers[j].ports }] :
         j \in DOMAIN list[i].computers }] :
    i \in DOMAIN list }

RoundTrip(data, json) ==
  /\ json.type = "list"
  /\ Len(json.value) = Len(data)
  /\ \A i \in DOMAIN json.value :
       \E k \in DOMAIN data :
         /\ data[k].client = json.value[i].client
         /\ Len(data[k].computers) = Len(json.value[i].computers)
  /\ ListedTrees(json.value) = InputTrees(data)

(* C7 for every successful POST on an empty store, the empty body included *)
C7_RoundTripAnyInput ==
  (Returned("create_clients") /\ Succeeded /\ before = EmptyStore) =>
    RoundTrip(request.data, get_all_clients(Current))

(* C7 for every successful POST of at least one entry on an empty store:   *)
(* list-all returns the input's clients, computers and ports              *)
C7_RoundTrip ==
  (Returned("create_clients") /\ Succeeded /\ before = EmptyStore
     /\ request.data # <<>>) =>
    RoundTrip(request.data, get_all_clients(Current))

(* two clients were created at once, one of them with a port *)
C7_Witness ==
  /\ Returned("create_clients")
  /\ Succeeded
  /\ before = EmptyStore
  /\ Len(request.data) = 2
  /\ ports # {}

(***************************************************************************)
(* C8. Merge: when a PUT patch entry targets a Computer of the target      *)
(* Client, latency and hostname keep their stored value when the entry     *)
(* leaves them out, and every Port of that Computer whose port_number is   *)
(* not in the entry's ports mapping is left as it was.                     *)
(***************************************************************************)
C8_MergeKeepsAbsent ==
  (Returned("update_client") /\ Succeeded) =>
    \A j \in DOMAIN request.data :
      LET ip == request.data[j][1]
          computer_data == request.data[j][2]
      IN \A c \in ComputersAt(before, ip) :
           c.client_id = Target.id =>
             /\ \E d \in computers :
                  /\ d.id = c.id
                  /\ d.ip_address = c.ip_address
                  /\ d.client_id = c.client_id
                  /\ computer_data.latency = Absent => d.latency = c.latency
                  /\ computer_data.hostname = Absent => d.hostname = c.hostname
             /\ \A p \in PortsOf(before, c.id) :
                  p.port_number \notin Keys(computer_data.ports) => p \in ports

(* a stored latency and a stored port were left out of a patch that gave others *)
C8_Witness ==
  /\ Returned("update_client")
  /\ Succeeded
  /\ \E j \in DOMAIN request.data :
       \E c \in ComputersAt(before, request.data[j][1]) :
         /\ c.client_id = Target.id
         /\ request.data[j][2].latency = Absent
         /\ request.data[j][2].hostname # Absent
         /\ request.data[j][2].ports # <<>>
         /\ \E p \in PortsOf(before, c.id) :
              p.port_number \notin Keys(request.data[j][2].ports)

(***************************************************************************)
(* C9. After a successful DELETE the store holds neither the Client, nor a *)
(* Computer it owned, nor a Port of those Computers, list-all shows none   *)
(* of them, and every other Client's Computers and Ports are unchanged.    *)
(***************************************************************************)
Gone == ComputersOf(before, Target.id)

GonePorts == { p \in before.ports : \E c \in Gone : p.computer_id = c.id }

C9_CascadeDelete ==
  (Returned("delete_client") /\ Succeeded) =>
    /\ ClientsNamed(Current, request.client_name) = {}
    /\ \A c \in Gone :
         /\ ComputersAt(Current, c.ip_address) = {}
         /\ PortsOf(Current, c.id) = {}
    /\ LET json == get_all_clients(Current)
       IN json.type = "list" =>
            \A i \in DOMAIN json.value :
              /\ json.value[i].client # request.client_name
              /\ \A k \in DOMAIN json.value[i].computers :
                   \A c \in Gone :
                     json.value[i].computers[k].ip_address # c.ip_address
    /\ clients = before.clients \ {Target}
    /\ computers = before.computers \ Gone
    /\ ports = before.ports \ GonePorts

(* the deleted client owned a computer with a port; another client remains *)
C9_Witness ==
  /\ Returned("delete_client")
  /\ Succeeded
  /\ GonePorts # {}
  /\ computers # {}

(***************************************************************************)
(* C10. A PUT or a DELETE that names a client which does not exist ends    *)
(* with a NotFound fault and leaves the store unchanged; a PUT never       *)
(* creates a Client.                                                       *)
(***************************************************************************)
C10_NotFound ==
  ((Returned("update_client") \/ Returned("delete_client"))
     /\ ClientsNamed(before, request.client_name) = {}) =>
    /\ NotFoundFault
    /\ Current = before

(***************************************************************************)
(* C11. A PUT is atomic: when it ends with a fault (a patched address      *)
(* belongs to a Computer of another Client, or any other failure), none of *)
(* the patch's changes is persisted: the three tables are what they were   *)
(* before the call.                                                        *)
(***************************************************************************)
C11_UpdateAtomic ==
  (Returned("update_client") /\ Faulted) => Current = before

(* a PUT has failed on a foreign address after it changed a field and named *)
(* a port of one of the target client's own computers                      *)
C11_Witness ==
  /\ Returned("update_client")
  /\ Faulted
  /\ ClientsNamed(before, request.client_name) # {}
  /\ \E j, k \in DOMAIN request.data :
       /\ \E c \in ComputersAt(before, request.data[j][1]) :
            /\ c.client_id = Target.id
            /\ \/ /\ request.data[j][2].hostname # Absent
                  /\ request.data[j][2].hostname # c.hostname
               \/ /\ request.data[j][2].latency # Absent
                  /\ request.data[j][2].latency # c.latency
               \/ request.data[j][2].ports # <<>>
       /\ \E c \in ComputersAt(before, request.data[k][1]) :
            c.client_id # Target.id

(***************************************************************************)
(* C12. GET /clients/ never faults and always returns a sequence of client *)
(* trees; when no Client is persisted it returns the empty sequence.       *)
(* (The statement as the specification gives it.)                          *)
(***************************************************************************)
C12_ListAlwaysSequence ==
  Returned("get_all_clients") =>
    /\ Succeeded
    /\ response.body.type = "list"
    /\ clients = {} => response.body.value = <<>>

(***************************************************************************)
(* C12, amended. GET /clients/ never faults; when at least one Client is   *)
(* persisted it returns a sequence with one tree per Client, and when none *)
(* is persisted it returns the object {"message": "No clients found"},     *)
(* which is not a sequence.                                                *)
(***************************************************************************)
C12_ListOrMessage ==
  Returned("get_all_clients") =>
    /\ Succeeded
    /\ clients # {} =>
         /\ response.body.type = "list"
         /\ Len(response.body.value) = Cardinality(clients)
         /\ { response.body.value[i].client : i \in DOMAIN response.body.value }
              = { c.name : c \in clients }
    /\ clients = {} =>
         /\ response.body.type = "object"
         /\ response.body.value = [message |-> "No clients found"]

(* a GET has listed two clients *)
C12_Witness ==
  /\ Returned("get_all_clients")
  /\ Cardinality(clients) = 2

(***************************************************************************)
(* C13. A POST in which an entry has a missing or empty client name, or a  *)
(* missing or empty computers mapping, ends with an InvalidInput fault and *)
(* persists nothing (stated for bodies whose entries before the first such *)
(* entry are accepted, so that no other fault is due).                     *)
(***************************************************************************)
FirstInvalid(data) ==
  Min({ i \in DOMAIN data : invalid(data[i].client, data[i].computers) })

C13_InvalidInput ==
  (/\ Returned("create_clients")
   /\ ~WellFormed(request.data)
   /\ create_clients(before,
         SubSeq(request.data, 1, FirstInvalid(request.data) - 1)
       ).response.status_code = HTTP_200)
  => (InvalidInputFault /\ Current = before)

(* the part of C13 the code keeps: such a POST persists nothing *)
C13_PersistsNothing ==
  (Returned("create_clients") /\ ~WellFormed(request.data)) => Current = before

(***************************************************************************)
(* C14. A successful PUT for one Client never loses or alters unrelated    *)
(* data: the clients table, every Computer the patch does not name (of the *)
(* target Client or of any other) and all the Ports of those Computers are *)
(* the same before and after, and the PUT removes no Computer and no Port. *)
(***************************************************************************)
C14_UpdateFrame ==
  (Returned("update_client") /\ Succeeded) =>
    /\ clients = before.clients
    /\ \A c \in before.computers :
         c.ip_address \notin Keys(request.data) =>
           /\ c \in computers
           /\ PortsOf(Current, c.id) = PortsOf(before, c.id)
    /\ \A c \in before.computers :
         \E d \in computers :
           d.id = c.id /\ d.ip_address = c.ip_address /\ d.client_id = c.client_id
    /\ \A p \in before.ports :
         \E q \in ports :
           q.id = p.id /\ q.port_number = p.port_number
                       /\ q.computer_id = p.computer_id

(* a PUT has changed one computer of a client that owns another computer, *)
(* with a port, which the patch does not name                              *)
C14_Witness ==
  /\ Returned("update_client")
  /\ Succeeded
  /\ request.data # <<>>
  /\ Current # before
  /\ \E c \in before.computers :
       /\ c.client_id = Target.id
       /\ c.ip_address \notin Keys(request.data)
       /\ PortsOf(before, c.id) # {}

(***************************************************************************)
(* C15. No orphans: in every reachable state every Computer's client_id    *)
(* is the id of a persisted Client and every Port's computer_id is the id  *)
(* of a persisted Computer.                                                *)
(***************************************************************************)
C15_NoOrphans ==
  /\ \A c \in computers : \E cl \in clients : cl.id = c.client_id
  /\ \A p \in ports : \E c \in computers : c.id = p.computer_id

(* a DELETE has removed a client that owned a computer with a port, and    *)
(* another client with its own computer remains                            *)
C15_Witness ==
  /\ Returned("delete_client")
  /\ Succeeded
  /\ GonePorts # {}
  /\ clients # {}
  /\ computers # {}

(***************************************************************************)
(* C16. A Port is identified by (computer, port_number): no Computer has   *)
(* two Port rows with the same port_number, while two Computers may each   *)
(* hold a Port with the same port_number; a successful PUT that names a    *)
(* port_number the Computer already has overwrites the service_name of     *)
(* that row and adds no row.                                               *)
(***************************************************************************)
C16_PortIdentity ==
  /\ \A p, q \in ports :
       (p.computer_id = q.computer_id /\ p.port_number = q.port_number) => p = q
  /\ (Returned("update_client") /\ Succeeded) =>
       \A j \in DOMAIN request.data :
         \A c \in ComputersAt(before, request.data[j][1]) :
           \A p \in PortsOf(before, c.id) :
             \A pair \in PairsOfDict(request.data[j][2].ports) :
               pair[1] = p.port_number =>
                 /\ [p EXCEPT !.service_name = pair[2]] \in ports
                 /\ Cardinality({ q \in PortsOf(Current, c.id) :
                                    q.port_number = p.port_number }) = 1

(* a PUT has overwritten the service of a port one computer already had   *)
(* and given the same port_number to another computer                     *)
C16_Witness ==
  /\ Returned("update_client")
  /\ Succeeded
  /\ \E p \in before.ports :
       \E q \in ports :
         q.id = p.id /\ q.service_name # p.service_name
  /\ \E p, q \in ports :
       p.port_number = q.port_number /\ p.computer_id # q.computer_id

(***************************************************************************)
(* C18. Every POST, PUT and DELETE ends, on every exit path, with its      *)
(* transaction committed or rolled back and its session closed; a call     *)
(* that reports a fault has rolled back and has committed nothing, and a   *)
(* call that reports success has committed.                                *)
(***************************************************************************)
WriteCall ==
  Returned("create_clients") \/ Returned("update_client") \/ Returned("delete_client")

C18_TransactionEnds ==
  WriteCall =>
    /\ session.txn \in {"committed", "rolled back"}
    /\ session.closed
    /\ Faulted => (session.txn = "rolled back" /\ Current = before)
    /\ Succeeded => session.txn = "committed"

(* a POST of two entries has failed on its second entry, after the first   *)
(* entry's rows were flushed                                               *)
C18_Witness ==
  /\ Returned("create_clients")
  /\ Faulted
  /\ Len(request.data) = 2
  /\ create_clients(before, SubSeq(request.data, 1, 1)).response.status_code
       = HTTP_200
  /\ session.txn = "rolled back"
  /\ session.closed

(***************************************************************************)
(* C19. In every reachable state every persisted Client owns at least one  *)
(* Computer.                                                               *)
(***************************************************************************)
C19_ClientOwnsComputer ==
  \A cl \in clients : ComputersOf(Current, cl.id) # {}

(* a POST of a named entry without computers has been refused while        *)
(* another client is persisted                                             *)
C19_Witness ==
  /\ Returned("create_clients")
  /\ Faulted
  /\ clients # {}
  /\ \E i \in DOMAIN request.data :
       request.data[i].client # EmptyName /\ request.data[i].computers = <<>>

(***************************************************************************)
(* C20. Deletion releases identities: after a successful DELETE of a       *)
(* Client, every POST of one entry that reuses the Client's name, with     *)
(* addresses no other Client holds (the deleted Client's addresses among   *)
(* them), succeeds; and the POST of the deleted Client's own tree gives    *)
(* back a state that lists the same trees as before the DELETE.            *)
(***************************************************************************)
Reusing(data) ==
  /\ Len(data) = 1
  /\ data[1].client = request.client_name
  /\ data[1].computers # <<>>
  /\ \A ip \in Keys(data[1].computers) : OwnerNames(Current, ip) = {}

SameTree(data) ==
  InputTrees(data) = ListedTrees(<<ClientTree(before, Target)>>)

C20_DeleteReleases ==
  (Returned("delete_client") /\ Succeeded) =>
    \A data \in Bodies :
      Reusing(data) =>
        LET r == create_clients(Current, data)
        IN /\ r.response.status_code = HTTP_200
           /\ SameTree(data) =>
                ListedTrees(get_all_clients(r.store).value)
                  = ListedTrees(get_all_clients(before).value)

(* a DELETE has removed a client with a computer and a port while another  *)
(* client remains, and a POST can name the deleted client's own tree       *)
C20_Witness ==
  /\ Returned("delete_client")
  /\ Succeeded
  /\ Gone # {}
  /\ GonePorts # {}
  /\ clients # {}
  /\ \E data \in Bodies : Reusing(data) /\ SameTree(data)

(***************************************************************************)
(* C17. A GET /clients/ that runs beside POST, PUT and DELETE calls never  *)
(* returns a partially applied call: what it returns is the listing of the *)
(* tables as they were at its start or as one of the calls committed since *)
(* left them, so that each call shows with all of its changes or none.     *)
(***************************************************************************)
C17_ListSeesWholeCalls ==
  reader.pc = "done" =>
    \E s \in reader.seen :
      LET json == get_all_clients(s)
      IN /\ json.type = reader.result.type
         /\ json.value = reader.result.value


====
